---- MODULE Spec2Model ----
(***************************************************************************)
(* The two tutorial notebooks (PyCSEP_tutorial_gridded.ipynb and           *)
(* PyCSEP_tutorial_catalog.ipynb) as state machines: one action per code   *)
(* cell, run top to bottom; a cell that raises halts the run.  The two     *)
(* PDF-assembly scripts as a state machine: one action per command line.   *)
(*                                                                         *)
(* Every csep.* function is third-party library code that the notebook     *)
(* only calls.  A call is modelled by what the notebook determines: the    *)
(* arguments it passes, the variable it binds, and the two outcomes any    *)
(* call has (it returns, or it raises and the run halts).  The value a     *)
(* call returns is kept as an uninterpreted term naming the call and its   *)
(* arguments; nothing is assumed about what the library computes.          *)
(* numpy.testing.assert_allclose is modelled by its documented comparison. *)
(***************************************************************************)
EXTENDS Integers, Sequences, FiniteSets, TLC

VARIABLES
    pc,                           \* the cell that runs next, or "done" / "halted"
    error,                        \* the cell whose exception halted the run
    werner_forecast,              \* gridded notebook, line 77
    meletti_forecast,             \* line 88
    italy_test_catalog,           \* lines 199, 223, 239
    spatial_test_result_werner,   \* line 283
    spatial_test_result_meletti,  \* line 293
    example_spatial_test_json,    \* the file written on line 311
    paired_calls,                 \* argument lists of the paired_t_test calls made
    paired_tests,                 \* paired_test1, ... : results of those that returned
    test_calls,                   \* the statistical test calls made, with their arguments
    space_magnitude_region,       \* catalog notebook, line 76
    catalog_forecast,             \* forecast, line 96
    expected_rates,               \* line 117
    comcat_catalog,               \* lines 162, 165
    number_test_result,           \* line 244
    spatial_test_result,          \* line 261
    script,                       \* the script that runs
    line,                         \* the command line it runs next
    files,                        \* the files of the working directory
    status                        \* exit statuses of the command lines run so far

gridded_vars == <<werner_forecast, meletti_forecast, italy_test_catalog,
                  spatial_test_result_werner, spatial_test_result_meletti,
                  example_spatial_test_json, paired_calls, paired_tests>>

catalog_vars == <<space_magnitude_region, catalog_forecast, expected_rates, comcat_catalog,
                  number_test_result, spatial_test_result>>

script_vars == <<script, line, files, status>>

vars == <<pc, error, test_calls, gridded_vars, catalog_vars, script_vars>>

----------------------------------------------------------------------------
(* Bounds of the model. *)

\* Longest midpoints array a forecast file carries.
MaxCells == 2

\* Longest series of paired_t_test calls against the one baseline.
MaxPairedCalls == 3

----------------------------------------------------------------------------
(* Values. *)

\* An unbound notebook variable.
None == <<>>

\* Midpoint coordinates, in units small enough that two of them differ by
\* less than the relative tolerance of assert_allclose.
Coords == {10000000, 10000001, 20000000}

\* The flattened array region.midpoints() returns: one entry per coordinate.
Midpoints == UNION {[1..n -> Coords] : n \in 1..MaxCells}

\* Magnitude bin edges (lower bounds, ascending), in hundredths of a unit.
Magnitudes == {<<495>>, <<505>>, <<495, 505>>}

\* A forecast's region: the spatial cells and the magnitude bins.
Regions == [midpoints : Midpoints, magnitudes : Magnitudes]

\* numpy's default relative tolerance is 1e-7 (atol is 0).
RtolInverse == 10000000

Abs(x) == IF x < 0 THEN -x ELSE x

\* The variables the first forecast argument ranges over, when the paired
\* test is repeated for several models.
OtherForecasts == {"forecast_a", "forecast_b"}

----------------------------------------------------------------------------
(* numpy.testing.assert_allclose(actual, desired): passes iff the arrays   *)
(* have the same shape and |actual - desired| <= atol + rtol * |desired|   *)
(* element by element, with the defaults rtol = 1e-7 and atol = 0.  For    *)
(* integers d and b, d <= b / 10^7 iff d <= b \div 10^7.                   *)

WithinRtol(actual, desired) ==
    Abs(actual - desired) <= Abs(desired) \div RtolInverse

assert_allclose(actual, desired) ==
    /\ Len(actual) = Len(desired)
    /\ \A i \in 1..Len(actual) : WithinRtol(actual[i], desired[i])

\* The sanity check with the magnitude bins as its arguments instead.
regions_check_magnitudes(meletti, werner) ==
    assert_allclose(meletti.region.magnitudes, werner.region.magnitudes)

\* Line 106: the arguments of the sanity check are the two midpoints arrays.
regions_check(meletti, werner) ==
    assert_allclose(meletti.region.midpoints, werner.region.midpoints)

----------------------------------------------------------------------------
(* Terms for the values the library calls return. *)

\* csep.load_gridded_forecast(fname, name=...): the region comes with the file.
GriddedForecast(name, region) == [name |-> name, region |-> region]

\* A catalog is its source and the filter calls applied to it, in order.
CatalogOp(op, region, expr) == [op |-> op, region |-> region, expr |-> expr]

load_catalog(fname) == [source |-> fname, ops |-> <<>>]

\* The spatial filter left out: the catalog comes back as it was.
filter_spatial_skipped(catalog, region) == catalog

filter_spatial(catalog, region) ==
    [catalog EXCEPT !.ops = Append(@, CatalogOp("filter_spatial", <<region>>, ""))]

filter(catalog, expr) ==
    [catalog EXCEPT !.ops = Append(@, CatalogOp("filter", <<>>, expr))]

\* poisson.spatial_test(forecast, catalog)
spatial_test(forecast, catalog) ==
    [test |-> "spatial_test", forecast |-> forecast, catalog |-> catalog]

\* The paired T-test is run against a base model; the notebook chooses
\* meletti_forecast (line 376).
Baseline == "meletti_forecast"

\* The call with its two forecast arguments exchanged.
paired_t_test_args_swapped(forecast) == <<Baseline, forecast, "italy_test_catalog">>

\* Line 385, and its repetition for other models as line 376 describes it:
\* the positional arguments of poisson.paired_t_test.
paired_t_test_args(forecast) == <<forecast, Baseline, "italy_test_catalog">>

paired_t_test(args) == [test |-> "paired_t_test", args |-> args]

\* csep.write_json(object, fname)
write_json(object) == [writer |-> "write_json", object |-> object]

----------------------------------------------------------------------------
(* Running the gridded notebook. *)

\* The catalog notebook is not run.
NoCatalogNotebook ==
    /\ space_magnitude_region = None
    /\ catalog_forecast = None
    /\ expected_rates = None
    /\ comcat_catalog = None
    /\ number_test_result = None
    /\ spatial_test_result = None

\* No script is run.
NoScript ==
    /\ script = ""
    /\ line = 0
    /\ files = {}
    /\ status = <<>>

\* A test call as it is made: the forecasts under test and the catalog.
TestCall(test, forecasts, catalog) ==
    [test |-> test, forecasts |-> forecasts, catalog |-> catalog]

Init ==
    /\ pc = "load_werner"
    /\ error = ""
    /\ werner_forecast = None
    /\ meletti_forecast = None
    /\ italy_test_catalog = None
    /\ spatial_test_result_werner = None
    /\ spatial_test_result_meletti = None
    /\ example_spatial_test_json = None
    /\ paired_calls = <<>>
    /\ paired_tests = <<>>
    /\ test_calls = <<>>
    /\ NoCatalogNotebook
    /\ NoScript

\* The code cells of the gridded notebook, top to bottom.
GriddedCells ==
    <<"load_werner", "load_meletti", "sanity_check", "plot_werner", "plot_meletti",
      "load_catalog", "filter_spatial", "filter_magnitude", "spatial_test_werner",
      "spatial_test_meletti", "write_json", "plot_consistency", "paired_t_test",
      "plot_comparison">>

\* The code cells of the catalog notebook, top to bottom.
CatalogCells ==
    <<"set_up_region", "load_catalog_forecast", "expected_rates",
      "plot_expected_rates", "query_comcat", "plot_catalog", "plot_composite",
      "number_test", "spatial_test">>

\* The position of a cell in its notebook; a repeated paired call stands
\* where the comparison plot does.
Rank(cell) ==
    LET c == IF cell = "paired_t_test_repeat" THEN "plot_comparison" ELSE cell
        cells == IF \E i \in DOMAIN GriddedCells : GriddedCells[i] = c
                   THEN GriddedCells ELSE CatalogCells
    IN  CHOOSE i \in DOMAIN cells : cells[i] = c

\* The exception is swallowed and the run goes on with the next cell.
RaiseAndContinue(cell) ==
    /\ error' = cell
    /\ pc' = LET cells == IF \E i \in DOMAIN GriddedCells : GriddedCells[i] = cell
                            THEN GriddedCells ELSE CatalogCells
             IN  IF cell = "paired_t_test_repeat" THEN "plot_comparison"
                 ELSE IF Rank(cell) = Len(cells) THEN "done"
                 ELSE cells[Rank(cell) + 1]

\* The cell raised: execution stops at it and nothing is bound.
Raise(cell) ==
    /\ pc' = "halted"
    /\ error' = cell

\* Lines 77-78.
LoadWerner ==
    /\ pc = "load_werner"
    /\ \/ /\ \E r \in Regions :
                werner_forecast' = GriddedForecast("Werner, et al (2010)", r)
          /\ pc' = "load_meletti"
          /\ UNCHANGED error
       \/ /\ Raise("load_werner")
          /\ UNCHANGED werner_forecast
    /\ UNCHANGED <<meletti_forecast, italy_test_catalog, spatial_test_result_werner,
                   spatial_test_result_meletti, example_spatial_test_json,
                   paired_calls, paired_tests>>
    /\ UNCHANGED <<test_calls, catalog_vars, script_vars>>

\* Lines 88-89.
LoadMeletti ==
    /\ pc = "load_meletti"
    /\ \/ /\ \E r \in Regions :
                meletti_forecast' =
                    GriddedForecast("Meletti et al (2010), MPS working group", r)
          /\ pc' = "sanity_check"
          /\ UNCHANGED error
       \/ /\ Raise("load_meletti")
          /\ UNCHANGED meletti_forecast
    /\ UNCHANGED <<werner_forecast, italy_test_catalog, spatial_test_result_werner,
                   spatial_test_result_meletti, example_spatial_test_json,
                   paired_calls, paired_tests>>
    /\ UNCHANGED <<test_calls, catalog_vars, script_vars>>

\* Line 106: no output when the check passes, AssertionError otherwise.
SanityCheck ==
    /\ pc = "sanity_check"
    /\ IF regions_check(meletti_forecast, werner_forecast)
         THEN pc' = "plot_werner" /\ UNCHANGED error
         ELSE Raise("sanity_check")
    /\ UNCHANGED <<werner_forecast, meletti_forecast, italy_test_catalog,
                   spatial_test_result_werner, spatial_test_result_meletti,
                   example_spatial_test_json, paired_calls, paired_tests>>
    /\ UNCHANGED <<test_calls, catalog_vars, script_vars>>

\* A cell that binds nothing the later cells read (a plot): it returns or raises.
PlotCell(cell, next) ==
    /\ pc = cell
    /\ \/ pc' = next /\ UNCHANGED error
       \/ Raise(cell)
    /\ UNCHANGED <<werner_forecast, meletti_forecast, italy_test_catalog,
                   spatial_test_result_werner, spatial_test_result_meletti,
                   example_spatial_test_json, paired_calls, paired_tests>>
    /\ UNCHANGED <<test_calls, catalog_vars, script_vars>>

\* Lines 158-160.
PlotWerner == PlotCell("plot_werner", "plot_meletti")

\* Line 171, left to the reader: as shipped ("ax = ??") the cell raises.
PlotMeletti == PlotCell("plot_meletti", "load_catalog")

\* Lines 199-200.
LoadCatalog ==
    /\ pc = "load_catalog"
    /\ \/ /\ italy_test_catalog' = load_catalog("europe_rcmt_2010-2015.csv")
          /\ pc' = "filter_spatial"
          /\ UNCHANGED error
       \/ /\ Raise("load_catalog")
          /\ UNCHANGED italy_test_catalog
    /\ UNCHANGED <<werner_forecast, meletti_forecast, spatial_test_result_werner,
                   spatial_test_result_meletti, example_spatial_test_json,
                   paired_calls, paired_tests>>
    /\ UNCHANGED <<test_calls, catalog_vars, script_vars>>

\* Line 223.
FilterSpatial ==
    /\ pc = "filter_spatial"
    /\ \/ /\ italy_test_catalog' =
                filter_spatial(italy_test_catalog, werner_forecast.region)
          /\ pc' = "filter_magnitude"
          /\ UNCHANGED error
       \/ /\ Raise("filter_spatial")
          /\ UNCHANGED italy_test_catalog
    /\ UNCHANGED <<werner_forecast, meletti_forecast, spatial_test_result_werner,
                   spatial_test_result_meletti, example_spatial_test_json,
                   paired_calls, paired_tests>>
    /\ UNCHANGED <<test_calls, catalog_vars, script_vars>>

\* Line 239.
FilterMagnitude ==
    /\ pc = "filter_magnitude"
    /\ \/ /\ italy_test_catalog' = filter(italy_test_catalog, "magnitude >= 4.95")
          /\ pc' = "spatial_test_werner"
          /\ UNCHANGED error
       \/ /\ Raise("filter_magnitude")
          /\ UNCHANGED italy_test_catalog
    /\ UNCHANGED <<werner_forecast, meletti_forecast, spatial_test_result_werner,
                   spatial_test_result_meletti, example_spatial_test_json,
                   paired_calls, paired_tests>>
    /\ UNCHANGED <<test_calls, catalog_vars, script_vars>>

\* Line 283.
SpatialTestWerner ==
    /\ pc = "spatial_test_werner"
    /\ \/ /\ spatial_test_result_werner' =
                spatial_test(werner_forecast, italy_test_catalog)
          /\ pc' = "spatial_test_meletti"
          /\ UNCHANGED error
       \/ /\ Raise("spatial_test_werner")
          /\ UNCHANGED spatial_test_result_werner
    /\ UNCHANGED <<werner_forecast, meletti_forecast, italy_test_catalog,
                   spatial_test_result_meletti, example_spatial_test_json,
                   paired_calls, paired_tests>>
    /\ test_calls' = Append(test_calls,
            TestCall("spatial_test", <<werner_forecast>>, italy_test_catalog))
    /\ UNCHANGED <<catalog_vars, script_vars>>

\* Lines 292-293, left to the reader ("Repeat the spatial test for our
\* second example forecast"): as shipped ("= ???") the cell raises.
SpatialTestMeletti ==
    /\ pc = "spatial_test_meletti"
    /\ \/ /\ spatial_test_result_meletti' =
                spatial_test(meletti_forecast, italy_test_catalog)
          /\ pc' = "write_json"
          /\ UNCHANGED error
       \/ /\ Raise("spatial_test_meletti")
          /\ UNCHANGED spatial_test_result_meletti
    /\ UNCHANGED <<werner_forecast, meletti_forecast, italy_test_catalog,
                   spatial_test_result_werner, example_spatial_test_json,
                   paired_calls, paired_tests>>
    /\ test_calls' = Append(test_calls,
            TestCall("spatial_test", <<meletti_forecast>>, italy_test_catalog))
    /\ UNCHANGED <<catalog_vars, script_vars>>

\* Line 311.
WriteJson ==
    /\ pc = "write_json"
    /\ \/ /\ example_spatial_test_json' = write_json(spatial_test_result_meletti)
          /\ pc' = "plot_consistency"
          /\ UNCHANGED error
       \/ /\ Raise("write_json")
          /\ UNCHANGED example_spatial_test_json
    /\ UNCHANGED <<werner_forecast, meletti_forecast, italy_test_catalog,
                   spatial_test_result_werner, spatial_test_result_meletti,
                   paired_calls, paired_tests>>
    /\ UNCHANGED <<test_calls, catalog_vars, script_vars>>

\* Lines 352-353.
PlotConsistency == PlotCell("plot_consistency", "paired_t_test")

\* The forecasts a paired call is given, as far as the notebook binds
\* them: the other models of line 376 are named, not loaded.
paired_forecasts(forecast) ==
    IF forecast = "werner_forecast" THEN <<werner_forecast, meletti_forecast>>
                                    ELSE <<meletti_forecast>>

\* One call of poisson.paired_t_test: the call is made with these
\* arguments; a result is bound only if it returns.
PairedCall(forecast, cell) ==
    /\ paired_calls' = Append(paired_calls, paired_t_test_args(forecast))
    /\ \/ /\ paired_tests' = Append(paired_tests,
                                    paired_t_test(paired_t_test_args(forecast)))
          /\ pc' = "plot_comparison"
          /\ UNCHANGED error
       \/ /\ Raise(cell)
          /\ UNCHANGED paired_tests
    /\ UNCHANGED <<werner_forecast, meletti_forecast, italy_test_catalog,
                   spatial_test_result_werner, spatial_test_result_meletti,
                   example_spatial_test_json>>
    /\ test_calls' = Append(test_calls,
            TestCall("paired_t_test", paired_forecasts(forecast), italy_test_catalog))
    /\ UNCHANGED <<catalog_vars, script_vars>>

\* Line 385.
PairedTTest ==
    /\ pc = "paired_t_test"
    /\ PairedCall("werner_forecast", "paired_t_test")

\* Line 376: "we can run it for multiple different models by repeating the
\* call, updating the first forecast argument and holding the second one
\* fixed".
PairedTTestRepeat ==
    /\ pc = "plot_comparison"
    /\ Len(paired_calls) < MaxPairedCalls
    /\ \E f \in OtherForecasts : PairedCall(f, "paired_t_test_repeat")

\* Lines 401-406.
PlotComparison == PlotCell("plot_comparison", "done")

Next ==
    \/ LoadWerner
    \/ LoadMeletti
    \/ SanityCheck
    \/ PlotWerner
    \/ PlotMeletti
    \/ LoadCatalog
    \/ FilterSpatial
    \/ FilterMagnitude
    \/ SpatialTestWerner
    \/ SpatialTestMeletti
    \/ WriteJson
    \/ PlotConsistency
    \/ PairedTTest
    \/ PairedTTestRepeat
    \/ PlotComparison

Spec == Init /\ [][Next]_vars

----------------------------------------------------------------------------
(* Running the catalog notebook (PyCSEP_tutorial_catalog.ipynb). *)

\* csep.load_catalog_forecast(fname, start_time, end_time, region): the
\* region is the one passed in; no filters are assigned yet.
load_catalog_forecast(region) == [region |-> region, filters |-> <<>>]

\* Line 116: the two time filters assigned to forecast.filters.
TimeFilters == <<"origin_time >= start_epoch", "origin_time < end_epoch">>

\* forecast.get_expected_rates(verbose=True)
get_expected_rates(fc) == [call |-> "get_expected_rates", forecast |-> fc]

\* csep.query_comcat(start_time, end_time, min_magnitude=...)
query_comcat == [source |-> "query_comcat", ops |-> <<>>]

\* catalog_evaluations.number_test(forecast, catalog)
number_test(fc, catalog) ==
    [test |-> "number_test", forecast |-> fc, catalog |-> catalog]

InitCatalog ==
    /\ pc = "set_up_region"
    /\ error = ""
    /\ test_calls = <<>>
    /\ werner_forecast = None
    /\ meletti_forecast = None
    /\ italy_test_catalog = None
    /\ spatial_test_result_werner = None
    /\ spatial_test_result_meletti = None
    /\ example_spatial_test_json = None
    /\ paired_calls = <<>>
    /\ paired_tests = <<>>
    /\ NoCatalogNotebook
    /\ NoScript

\* Lines 59-76.
SetUpRegion ==
    /\ pc = "set_up_region"
    /\ \/ /\ \E r \in Regions : space_magnitude_region' = r
          /\ pc' = "load_catalog_forecast"
          /\ UNCHANGED error
       \/ /\ Raise("set_up_region")
          /\ UNCHANGED space_magnitude_region
    /\ UNCHANGED <<catalog_forecast, expected_rates, comcat_catalog,
                   number_test_result, spatial_test_result>>
    /\ UNCHANGED <<test_calls, gridded_vars, script_vars>>

\* Lines 96-99.
LoadCatalogForecast ==
    /\ pc = "load_catalog_forecast"
    /\ \/ /\ catalog_forecast' = load_catalog_forecast(space_magnitude_region)
          /\ pc' = "expected_rates"
          /\ UNCHANGED error
       \/ /\ Raise("load_catalog_forecast")
          /\ UNCHANGED catalog_forecast
    /\ UNCHANGED <<space_magnitude_region, expected_rates, comcat_catalog,
                   number_test_result, spatial_test_result>>
    /\ UNCHANGED <<test_calls, gridded_vars, script_vars>>

\* Lines 115-117: the filters are assigned, then the rates are requested;
\* if the request raises the assignment has already happened.
ExpectedRates ==
    /\ pc = "expected_rates"
    /\ catalog_forecast' = [catalog_forecast EXCEPT !.filters = TimeFilters]
    /\ \/ /\ expected_rates' = get_expected_rates(catalog_forecast')
          /\ pc' = "plot_expected_rates"
          /\ UNCHANGED error
       \/ /\ Raise("expected_rates")
          /\ UNCHANGED expected_rates
    /\ UNCHANGED <<space_magnitude_region, comcat_catalog,
                   number_test_result, spatial_test_result>>
    /\ UNCHANGED <<test_calls, gridded_vars, script_vars>>

\* Lines 133-143.
PlotExpectedRates == PlotCell("plot_expected_rates", "query_comcat")

\* Lines 161-165: the catalog is queried, then filtered to the forecast's
\* region; if the filter raises the variable keeps the unfiltered catalog.
QueryComcat ==
    /\ pc = "query_comcat"
    /\ \/ /\ comcat_catalog' = filter_spatial(query_comcat, catalog_forecast.region)
          /\ pc' = "plot_catalog"
          /\ UNCHANGED error
       \/ /\ comcat_catalog' = query_comcat
          /\ Raise("query_comcat")
       \/ /\ Raise("query_comcat")
          /\ UNCHANGED comcat_catalog
    /\ UNCHANGED <<space_magnitude_region, catalog_forecast, expected_rates,
                   number_test_result, spatial_test_result>>
    /\ UNCHANGED <<test_calls, gridded_vars, script_vars>>

\* Line 182.
PlotCatalog == PlotCell("plot_catalog", "plot_composite")

\* Lines 217-221.
PlotComposite == PlotCell("plot_composite", "number_test")

\* Lines 244-245: the test, then the plot of its result; if the plot raises
\* the result is already bound.
NumberTest ==
    /\ pc = "number_test"
    /\ test_calls' = Append(test_calls,
            TestCall("number_test", <<catalog_forecast>>, comcat_catalog))
    /\ \/ /\ number_test_result' = number_test(catalog_forecast, comcat_catalog)
          /\ \/ pc' = "spatial_test" /\ UNCHANGED error
             \/ Raise("number_test")
       \/ /\ Raise("number_test")
          /\ UNCHANGED number_test_result
    /\ UNCHANGED <<space_magnitude_region, catalog_forecast, expected_rates,
                   comcat_catalog, spatial_test_result>>
    /\ UNCHANGED <<gridded_vars, script_vars>>

\* Lines 261-262.
SpatialTest ==
    /\ pc = "spatial_test"
    /\ test_calls' = Append(test_calls,
            TestCall("spatial_test", <<catalog_forecast>>, comcat_catalog))
    /\ \/ /\ spatial_test_result' = spatial_test(catalog_forecast, comcat_catalog)
          /\ \/ pc' = "done" /\ UNCHANGED error
             \/ Raise("spatial_test")
       \/ /\ Raise("spatial_test")
          /\ UNCHANGED spatial_test_result
    /\ UNCHANGED <<space_magnitude_region, catalog_forecast, expected_rates,
                   comcat_catalog, number_test_result>>
    /\ UNCHANGED <<gridded_vars, script_vars>>

NextCatalog ==
    \/ SetUpRegion
    \/ LoadCatalogForecast
    \/ ExpectedRates
    \/ PlotExpectedRates
    \/ QueryComcat
    \/ PlotCatalog
    \/ PlotComposite
    \/ NumberTest
    \/ SpatialTest

InitNotebooks == Init \/ InitCatalog

NextNotebooks == Next \/ NextCatalog

\* A run of either notebook.
SpecNotebooks == InitNotebooks /\ [][NextNotebooks]_vars

----------------------------------------------------------------------------
(* Running a PDF-assembly script (organizational/create_pdf.sh and its     *)
(* pdfunite variant).  The script has no "set -e" and its first line,      *)
(* "#/usr/bin/sh", is a comment: the shell runs the four command lines     *)
(* one after the other, whatever their exit statuses.  The tools are       *)
(* external.  A command that exits 0 has done what it was asked, which     *)
(* needs its inputs to exist; one that exits non-zero may or may not have  *)
(* written or removed its files.                                           *)

Scripts == {"create_pdf.sh", "part_000"}

\* The merged file each script writes.
OutputFile(sh) ==
    IF sh = "create_pdf.sh" THEN "CSEPworkshop_invitation.pdf"
                            ELSE "RISE_CSEP_Workshop_invitation.pdf"

\* The merging tool each script calls.
MergeTool(sh) == IF sh = "create_pdf.sh" THEN "pdfjoin" ELSE "pdfunite"

Command(tool, inputs, output) == [tool |-> tool, inputs |-> inputs, output |-> output]

\* The script with the deletion placed before the merge.
CommandsRmFirst(sh) ==
    << Command("inkscape", <<"invitation.svg">>, "invitation.pdf"),
       Command("inkscape", <<"agenda.svg">>, "agenda.pdf"),
       Command("rm", <<"invitation.pdf", "agenda.pdf">>, ""),
       Command(MergeTool(sh), <<"invitation.pdf", "agenda.pdf">>, OutputFile(sh)) >>

\* Lines 4-7 of either script.
Commands(sh) ==
    << Command("inkscape", <<"invitation.svg">>, "invitation.pdf"),
       Command("inkscape", <<"agenda.svg">>, "agenda.pdf"),
       Command(MergeTool(sh), <<"invitation.pdf", "agenda.pdf">>, OutputFile(sh)),
       Command("rm", <<"invitation.pdf", "agenda.pdf">>, "") >>

\* The files a run can find or leave in the working directory.
FileNames(sh) ==
    {"invitation.svg", "agenda.svg", "invitation.pdf", "agenda.pdf", OutputFile(sh)}

Range(seq) == {seq[i] : i \in DOMAIN seq}

\* The line run after one that exited with this status, under "set -e".
NextLineErrexit(ln, exit) == IF exit = 0 THEN ln + 1 ELSE 5

\* The line run after one that exited with this status: the next one.
NextLine(ln, exit) == ln + 1

\* The script has run to its end.
Finished == script # "" /\ line > Len(Commands(script))

\* The exit status of the script: that of the last command it ran.
ExitStatus == status[Len(status)].exit

InitScript ==
    /\ pc = "script"
    /\ error = ""
    /\ test_calls = <<>>
    /\ werner_forecast = None
    /\ meletti_forecast = None
    /\ italy_test_catalog = None
    /\ spatial_test_result_werner = None
    /\ spatial_test_result_meletti = None
    /\ example_spatial_test_json = None
    /\ paired_calls = <<>>
    /\ paired_tests = <<>>
    /\ NoCatalogNotebook
    /\ script \in Scripts
    /\ line = 1
    /\ files \in SUBSET FileNames(script)
    /\ status = <<>>

\* The command line has run with this exit status and left these files.
Ran(command, exit, left) ==
    /\ files' = left
    /\ status' = Append(status, [command |-> command, exit |-> exit])
    /\ line' = NextLine(line, exit)
    /\ UNCHANGED <<script, pc, error, test_calls, gridded_vars, catalog_vars>>

\* A command that writes one file (inkscape, pdfjoin, pdfunite).
RunWrite(command) ==
    \/ /\ Range(command.inputs) \subseteq files
       /\ Ran(command, 0, files \cup {command.output})
    \/ \E left \in {files, files \cup {command.output}} : Ran(command, 1, left)

\* Lines 4 and 5: cat x.svg | inkscape --pipe --export-filename=x.pdf
Convert ==
    /\ pc = "script" /\ ~Finished
    /\ Commands(script)[line].tool = "inkscape"
    /\ RunWrite(Commands(script)[line])

\* Line 6: pdfjoin --outfile OUT --no-landscape invitation.pdf agenda.pdf,
\* or pdfunite invitation.pdf agenda.pdf OUT.
Merge ==
    /\ pc = "script" /\ ~Finished
    /\ Commands(script)[line].tool = MergeTool(script)
    /\ RunWrite(Commands(script)[line])

\* Line 7: rm invitation.pdf agenda.pdf
Remove ==
    /\ pc = "script" /\ ~Finished
    /\ Commands(script)[line].tool = "rm"
    /\ LET command == Commands(script)[line]
           operands == Range(command.inputs)
       IN  \/ /\ operands \subseteq files
              /\ Ran(command, 0, files \ operands)
           \/ \E gone \in SUBSET (operands \cap files) :
                 Ran(command, 1, files \ gone)

NextScript ==
    \/ Convert
    \/ Merge
    \/ Remove

\* A run of either script.
SpecScript == InitScript /\ [][NextScript]_vars

----------------------------------------------------------------------------
(* Properties. *)

CellsBeforeCheck == {"load_werner", "load_meletti", "sanity_check"}

\* The sanity check of line 106 ran and raised nothing.
CheckPassed ==
    IF pc = "halted" THEN error \notin CellsBeforeCheck
                     ELSE pc \notin CellsBeforeCheck

\* The same spatial cells within the tolerance of the check.
SameMidpoints(a, b) ==
    /\ Len(a) = Len(b)
    /\ \A i \in DOMAIN a : WithinRtol(a[i], b[i])

\* C2, as stated: once the check before the joint test has passed, the two
\* forecasts have identical regions: the same cells and the same magnitude
\* bin edges.
C2_CheckEstablishesIdentity ==
    CheckPassed => meletti_forecast.region = werner_forecast.region

\* C2, amended: once the check has passed, and so whenever the two
\* forecasts are passed to the paired test, their regions have the same
\* number of midpoint coordinates, equal one by one within the relative
\* tolerance 1e-7; nothing is established about the magnitude bin edges.
C2_CheckEstablishesMidpoints ==
    (CheckPassed \/ paired_calls # <<>>) =>
        SameMidpoints(meletti_forecast.region.midpoints,
                      werner_forecast.region.midpoints)

\* The two checked forecasts are passed to the paired test although their
\* magnitude bin edges differ and their midpoints are not identical.
C2_Witness ==
    /\ paired_calls # <<>>
    /\ paired_calls[1] = <<"werner_forecast", "meletti_forecast", "italy_test_catalog">>
    /\ meletti_forecast.region.magnitudes # werner_forecast.region.magnitudes
    /\ meletti_forecast.region.midpoints # werner_forecast.region.midpoints

\* C9, as stated: in every call of the series the baseline forecast is the
\* first argument.
C9_BaselineFirst ==
    \A i \in DOMAIN paired_calls : paired_calls[i][1] = Baseline

\* C9, amended: in every call of the series the baseline forecast is the
\* second argument and the catalog the third; the first argument is the
\* forecast compared to the baseline, and it alone changes between calls.
C9_BaselineSecond ==
    /\ \A i \in DOMAIN paired_calls :
          /\ paired_calls[i][2] = Baseline
          /\ paired_calls[i][1] # Baseline
    /\ \A i, j \in DOMAIN paired_calls :
          /\ paired_calls[i][2] = paired_calls[j][2]
          /\ paired_calls[i][3] = paired_calls[j][3]

\* A series of calls comparing different forecasts to the baseline.
C9_Witness ==
    /\ Len(paired_calls) >= 2
    /\ paired_calls[1][1] # paired_calls[2][1]

InGridded(cell) ==
    cell = "paired_t_test_repeat" \/ \E i \in DOMAIN GriddedCells : GriddedCells[i] = cell

\* The cell that failed comes before this one in its notebook.
FailedBefore(cell) ==
    /\ error # ""
    /\ InGridded(error) <=> InGridded(cell)
    /\ Rank(error) < Rank(cell)

\* C12: once a cell has failed the run is halted for good: no cell runs
\* after it (so nothing is retried), and nothing a later cell would have
\* loaded, filtered, tested, compared or written exists.
C12_HaltsAtFirstFailure ==
    /\ error # "" => pc = "halted"
    /\ pc = "halted" => error # "" /\ ~ENABLED NextNotebooks
    /\ FailedBefore("load_meletti") => meletti_forecast = None
    /\ FailedBefore("load_catalog") => italy_test_catalog = None
    /\ FailedBefore("filter_spatial") =>
          italy_test_catalog = None \/ italy_test_catalog.ops = <<>>
    /\ FailedBefore("spatial_test_werner") =>
          test_calls = <<>> /\ spatial_test_result_werner = None
    /\ FailedBefore("spatial_test_meletti") => spatial_test_result_meletti = None
    /\ FailedBefore("write_json") => example_spatial_test_json = None
    /\ FailedBefore("paired_t_test") => paired_calls = <<>> /\ paired_tests = <<>>
    /\ FailedBefore("load_catalog_forecast") => catalog_forecast = None
    /\ FailedBefore("expected_rates") => expected_rates = None
    /\ FailedBefore("query_comcat") => comcat_catalog = None
    /\ FailedBefore("number_test") =>
          test_calls = <<>> /\ number_test_result = None
    /\ FailedBefore("spatial_test") => spatial_test_result = None

\* A run halted at a failed filter step, after its catalog was loaded and
\* before any test ran.
C12_Witness ==
    /\ pc = "halted"
    /\ error \in {"filter_spatial", "filter_magnitude", "query_comcat"}
    /\ italy_test_catalog # None \/ comcat_catalog # None
    /\ test_calls = <<>>

\* The catalog has been spatially filtered by exactly this region.
FilteredBy(catalog, region) ==
    \E j \in DOMAIN catalog.ops :
        /\ catalog.ops[j].op = "filter_spatial"
        /\ catalog.ops[j].region = <<region>>

\* The catalog has been spatially filtered by a region whose midpoints
\* agree with this region's within the tolerance of the sanity check.
FilteredByMidpoints(catalog, region) ==
    \E j \in DOMAIN catalog.ops :
        /\ catalog.ops[j].op = "filter_spatial"
        /\ SameMidpoints(region.midpoints, catalog.ops[j].region[1].midpoints)

Intermediates == {"invitation.pdf", "agenda.pdf"}

\* The i-th command line has run.
HasRun(i) == Len(status) >= i

\* The commands run so far are, in this order: the two conversions, the
\* merge of invitation.pdf and agenda.pdf into the output file, the
\* deletion of the two intermediates; and a run whose steps all exited 0
\* ends with the output present and both intermediates absent.
C15_StepsInOrder ==
    /\ HasRun(1) => status[1].command =
                        Command("inkscape", <<"invitation.svg">>, "invitation.pdf")
    /\ HasRun(2) => status[2].command =
                        Command("inkscape", <<"agenda.svg">>, "agenda.pdf")
    /\ HasRun(3) =>
          /\ status[3].command.tool \in {"pdfjoin", "pdfunite"}
          /\ status[3].command.inputs = <<"invitation.pdf", "agenda.pdf">>
          /\ status[3].command.output \in
                {"CSEPworkshop_invitation.pdf", "RISE_CSEP_Workshop_invitation.pdf"}
    /\ HasRun(4) => status[4].command =
                        Command("rm", <<"invitation.pdf", "agenda.pdf">>, "")
    /\ (Finished /\ \A i \in DOMAIN status : status[i].exit = 0) =>
          /\ OutputFile(script) \in files
          /\ Intermediates \cap files = {}

\* An intermediate PDF disappears only in the step that follows the merge.
C15_DeletedAfterMerge ==
    (\E f \in Intermediates : f \in files /\ f \notin files') =>
        /\ Len(status) = 3
        /\ status[3].command.tool \in {"pdfjoin", "pdfunite"}

\* C15: the script runs its steps in the fixed order conversion,
\* conversion, merge (invitation first, agenda second), deletion; the
\* intermediates are deleted only after the merge step; and when every
\* step succeeds the run ends with the merged output present and both
\* intermediates absent.
C15_FixedOrder == []C15_StepsInOrder /\ [][C15_DeletedAfterMerge]_vars

\* A run in which every step succeeded.
C15_Witness ==
    /\ Finished
    /\ Len(status) = 4
    /\ \A i \in DOMAIN status : status[i].exit = 0
    /\ OutputFile(script) \in files
    /\ Intermediates \cap files = {}

\* C16: the script does not stop on failure: every line before the current
\* one has run, whatever the exit statuses, so a finished run has run all
\* four lines, the deletion last, and its exit status is the deletion's.
C16_RunsEveryStep ==
    /\ script # "" => Len(status) = line - 1
    /\ Finished =>
          /\ Len(status) = 4
          /\ status[4].command.tool = "rm"
          /\ ExitStatus = status[4].exit

\* A run in which a conversion succeeded and the merge failed, and which
\* ends, the deletion having run, with no merged output and no intermediates.
C16_Witness ==
    /\ Finished
    /\ \E i \in 1..2 : status[i].exit = 0
    /\ status[3].exit # 0
    /\ status[4].command.tool = "rm"
    /\ OutputFile(script) \notin files
    /\ Intermediates \cap files = {}

====
